---- MODULE Spec2Model ----
(***************************************************************************)
(* Model of the pad/knob playback state machine of the Musical Garden      *)
(* (src/sparkle_musical_garden.py, class MusicalGarden).                   *)
(*                                                                         *)
(* Numbers.  The code computes with Python floats.  Every knob value the   *)
(* code can hold is value/127 or one of the initial 0.5 / 0.3, so knob     *)
(* values are kept as integers in units of 1/1270 (0.5 = 635, 0.3 = 381,   *)
(* value/127 = 10*value).  Gains passed to Sound.set_volume are kept as    *)
(* integers in units of 1/(1270*1270).                                     *)
(***************************************************************************)
EXTENDS Integers, Naturals, Sequences, FiniteSets, TLC

(***************************************************************************)
(* Bounds of the model.                                                    *)
(***************************************************************************)
\* size of the mixer's channel pool
NumChannels == 2

\* units
KnobUnit == 127 * 10
GainUnit == KnobUnit * KnobUnit

(***************************************************************************)
(* Sound names.  A name is a record: 'earth' is [base "earth", num 0],     *)
(* f'seed_{i+1}' is [base "seed", num i+1], and f"{name}_off" sets suffix. *)
(***************************************************************************)
SoundName(base, num) == [base |-> base, num |-> num, suffix |-> ""]

\* Python's None for a sound name
NoSound == SoundName("", 0)

\* f"{sound_name}_off"
OffName(sound_name) == [sound_name EXCEPT !.suffix = "_off"]

big_pad_sounds ==
    << "earth", "rain", "wind", "thunder", "trees", "birds", "insects", "sun" >>

BigPadNames == { SoundName(big_pad_sounds[i], 0) : i \in 1..Len(big_pad_sounds) }

\* the name the melodic loops give to index i (0-based): row = i // 4
MelodicName(i) ==
    LET row == i \div 4
    IN  SoundName(IF row = 0 THEN "seed"
                  ELSE IF row = 1 THEN "sprout"
                  ELSE IF row = 2 THEN "bud"
                  ELSE "flower", i + 1)

\* keys of NatureSounds.sounds after _generate_nature_sounds
CatalogKeys ==
    BigPadNames \cup { MelodicName(i) : i \in 0..15 }
                \cup { OffName(MelodicName(i)) : i \in 0..15 }

(***************************************************************************)
(* The mapping file setup/sparkle_mapping.json, as far as the garden reads *)
(* it: groups -> list of entries with midi_type and midi_note.             *)
(***************************************************************************)
Entry(midi_type, midi_note) == [midi_type |-> midi_type, midi_note |-> midi_note]

\* the file is absent: load_midi_mappings falls back to the default table
MissingFile ==
    [found |-> FALSE, parses |-> TRUE, big_pads |-> << >>, numbers |-> << >>, knobs |-> << >>]

\* a recorded file: three big pads in physical order 40, 36, 44 (each with
\* its note_off entry) and seventeen number pads 51..67
RecordedFile ==
    [found    |-> TRUE,
     parses   |-> TRUE,
     knobs    |-> << >>,
     big_pads |-> << Entry("note_on", 40), Entry("note_off", 40),
                     Entry("note_on", 36), Entry("note_off", 36),
                     Entry("note_on", 44), Entry("note_off", 44) >>,
     numbers  |-> [i \in 1..17 |-> Entry("note_on", 50 + i)]]

MappingFiles == { MissingFile, RecordedFile }

\* number of big pads that the recorded files list in every order
MaxPads == 3

\* the editor writes a pad as its note_on entry followed by its note_off entry
RECURSIVE Recorded(_)
Recorded(notes) ==
    IF notes = << >> THEN << >>
    ELSE << Entry("note_on", Head(notes)), Entry("note_off", Head(notes)) >>
            \o Recorded(Tail(notes))

\* a control_change entry; custom_name names the knob role
Knob(midi_control, custom_name) ==
    [midi_type |-> "control_change", midi_control |-> midi_control,
     custom_name |-> custom_name]

\* the big pads 36, 40, 44, ...
PadPool == { 36 + 4 * i : i \in 0..(MaxPads - 1) }

\* every order in which up to MaxPads distinct big pads can be recorded, a
\* group of nine pads, and a group that records pad 40 twice
BigPadGroups ==
    { Recorded(order) :
        order \in { o \in UNION { [1..k -> PadPool] : k \in 0..MaxPads } :
                        \A i, j \in DOMAIN o : o[i] = o[j] => i = j } }
    \cup { Recorded([i \in 1..9 |-> 49 - i]), Recorded(<< 40, 36, 40 >>) }

\* the number pads: none, 51..66 ascending, descending and shuffled, sixteen
\* scattered notes shuffled, seventeen notes, and four notes one of which is
\* also a big pad
NumberGroups ==
    { << >>,
      Recorded([i \in 1..16 |-> 50 + i]),
      Recorded([i \in 1..16 |-> 67 - i]),
      Recorded([i \in 1..16 |-> 51 + ((7 * i) % 16)]),
      Recorded([i \in 1..16 |-> 100 - 3 * ((5 * i) % 16)]),
      Recorded([i \in 1..17 |-> 50 + i]),
      Recorded(<< 60, 44, 52, 56 >>) }

\* the knobs: none recorded, recorded at the control numbers the garden has
\* built in, and recorded at other control numbers
KnobGroups ==
    { << >>,
      << Knob(10, "master_volume"), Knob(16, "temperature"), Knob(17, "water"),
         Knob(18, "time_of_day"), Knob(7, "seasons") >>,
      << Knob(20, "master_volume"), Knob(21, "temperature") >> }

\* a file that json.load cannot parse
UnparseableFile ==
    [found |-> TRUE, parses |-> FALSE, big_pads |-> << >>, numbers |-> << >>,
     knobs |-> << >>]

\* files with an entry that lacks 'midi_type', or a note_on entry that lacks
\* 'midi_note'
IncompleteFiles ==
    { [found |-> TRUE, parses |-> TRUE, big_pads |-> << [midi_note |-> 40] >>,
       numbers |-> << >>, knobs |-> << >>],
      [found |-> TRUE, parses |-> TRUE, big_pads |-> Recorded(<< 40 >>),
       numbers |-> << [midi_type |-> "note_on"] >>, knobs |-> << >>] }

RouterFiles ==
    { [found |-> TRUE, parses |-> TRUE, big_pads |-> b, numbers |-> n, knobs |-> k] :
        b \in BigPadGroups, n \in NumberGroups, k \in KnobGroups }
    \cup { MissingFile, UnparseableFile } \cup IncompleteFiles

\* pad['midi_type'] or pad['midi_note'] raises KeyError for some entry the
\* loops of _build_note_mapping read
LacksField(group) ==
    \E p \in 1..Len(group) :
        \/ "midi_type" \notin DOMAIN group[p]
        \/ group[p].midi_type = "note_on" /\ "midi_note" \notin DOMAIN group[p]

\* load_midi_mappings raises an exception other than FileNotFoundError:
\* json.load raises JSONDecodeError, or _build_note_mapping raises KeyError
Raises(file) ==
    file.found /\ (~file.parses \/ LacksField(file.big_pads) \/ LacksField(file.numbers))

\* dict assignment d[k] = v
Put(d, k, v) == [x \in DOMAIN d \cup {k} |-> IF x = k THEN v ELSE d[x]]

\* the midi_note of the note_on entries of a group, in file order
RECURSIVE OnEvents(_)
OnEvents(group) ==
    IF group = << >> THEN << >>
    ELSE (IF Head(group).midi_type = "note_on"
            THEN << Head(group).midi_note >> ELSE << >>) \o OnEvents(Tail(group))

\* the big pads given their sounds in ascending order of note number
MapBigPadsSorted(mapping, on_events, i) ==
    LET notes == { on_events[j] : j \in DOMAIN on_events }
    IN  [n \in DOMAIN mapping \cup notes |->
            IF n \in notes
              THEN SoundName(big_pad_sounds[Cardinality({ m \in notes : m < n }) + 1], 0)
              ELSE mapping[n]]

\* for i, note in enumerate(on_events): if i < len(big_pad_sounds): ...
RECURSIVE MapBigPads(_, _, _)
MapBigPads(mapping, on_events, i) ==
    IF i > Len(on_events) THEN mapping
    ELSE MapBigPads(IF i <= Len(big_pad_sounds)
                      THEN Put(mapping, on_events[i], SoundName(big_pad_sounds[i], 0))
                      ELSE mapping,
                    on_events, i + 1)

\* the rank of a note in descending order
RankDescending(notes, note) == Cardinality({ m \in notes : m > note })

\* sorted(number_groups.keys()) indexed from 0: the rank of a note
Rank(notes, note) == Cardinality({ m \in notes : m < note })

_build_note_mapping(file) ==
    LET big     == MapBigPads(<< >>, OnEvents(file.big_pads), 1)
        numkeys == { OnEvents(file.numbers)[i] : i \in 1..Len(OnEvents(file.numbers)) }
    IN  [n \in DOMAIN big \cup numkeys |->
            IF n \in numkeys THEN MelodicName(Rank(numkeys, n)) ELSE big[n]]

_build_default_mapping ==
    LET big == (36 :> "earth") @@ (38 :> "rain") @@ (42 :> "wind") @@ (46 :> "thunder")
               @@ (50 :> "trees") @@ (47 :> "birds") @@ (43 :> "insects") @@ (49 :> "sun")
    IN  [n \in DOMAIN big \cup { 51 + i : i \in 0..15 } |->
            IF n \in DOMAIN big THEN SoundName(big[n], 0) ELSE MelodicName(n - 51)]

load_midi_mappings(file) ==
    IF file.found THEN _build_note_mapping(file) ELSE _build_default_mapping

(***************************************************************************)
(* State of a MusicalGarden object and of the mixer it drives.             *)
(***************************************************************************)
VARIABLES
    note_to_sound,   \* self.note_to_sound: note -> sound name
    pad_states,      \* self.pad_states: note -> BOOLEAN
    active_sounds,   \* self.active_sounds: note -> channel
    master_volume,   \* self.master_volume   (units of 1/1270)
    temperature,     \* self.temperature
    water,           \* self.water
    time_of_day,     \* self.time_of_day
    seasons,         \* self.seasons
    channels,        \* mixer channel -> "idle" | "loop" | "once" | "fade"
    sound_volume,    \* Sound object -> volume set by Sound.set_volume
    received,        \* note -> parity of the toggle events handled for it
    dropped,         \* note -> parity of the ON requests dropped for lack of a channel
    last,            \* what the last step did: "none" | "on" | "off" | "dropped" |
                     \* "ignored" | "knob" | "done" | ...
    mapping_file,    \* the file setup/sparkle_mapping.json on disk
    running,         \* self.running
    midi_input,      \* self.midi_input: "none" (None) | "open" | "closed"
    main_pc,         \* where the main thread is: "construct" | "ready" | "failed" |
                     \* "run" | "closing" | "stopped"
    closing_tones,   \* timers of play_closing_ritual that have not fired yet
    status,          \* the status thread: [pc, len]
    midi,            \* the event thread in midi_monitor: [pc, msg]
    tui,             \* the dashboard thread in _reset_garden: [pc, note, todo]
    synth            \* the sample loop of the generator that is running

\* the threads around the event thread
threadVars == << main_pc, closing_tones, status, midi, tui >>

vars == << note_to_sound, pad_states, active_sounds, master_volume, temperature, water,
           time_of_day, seasons, channels, sound_volume, received, dropped, last,
           mapping_file, running, midi_input, main_pc, closing_tones, status, midi, tui,
           synth >>

Channels == 1..NumChannels

\* the part of the state the handlers read and write, as one record; commands
\* collects the channel commands a handler issues
Garden ==
    [pad_states    |-> pad_states,
     active_sounds |-> active_sounds,
     master_volume |-> master_volume,
     temperature   |-> temperature,
     water         |-> water,
     time_of_day   |-> time_of_day,
     seasons       |-> seasons,
     channels      |-> channels,
     sound_volume  |-> sound_volume,
     running       |-> running,
     midi_input    |-> midi_input,
     commands      |-> << >>]

\* a command sent to a mixer channel
Cmd(op, channel, sound, arg) == [op |-> op, channel |-> channel, sound |-> sound, arg |-> arg]

\* Channel.get_busy()
get_busy(g, channel) == g.channels[channel] # "idle"

\* pygame.mixer.find_channel(): the first channel that is not busy, or None (0)
find_channel(g) ==
    IF \E c \in Channels : ~get_busy(g, c)
      THEN CHOOSE c \in Channels : ~get_busy(g, c) /\ \A d \in Channels : d < c => get_busy(g, d)
      ELSE 0

get_sound_name_for_note(note) ==
    IF note \in DOMAIN note_to_sound THEN note_to_sound[note] ELSE NoSound

is_big_pad_note(note) ==
    LET sound_name == get_sound_name_for_note(note)
    IN  IF sound_name # NoSound THEN sound_name \in BigPadNames ELSE FALSE

\* the velocity taken as the gain itself, velocity / 127.0
velocity_volume_unscaled(velocity) == 10 * velocity

\* velocity_volume = 0.1 + (velocity / 127.0) * 0.7, in units of 1/1270
velocity_volume(velocity) == 127 + 7 * velocity

\* Channel.stop()
ChannelStop(g, channel) ==
    [g EXCEPT !.channels[channel] = "idle",
              !.commands = Append(@, Cmd("stop", channel, NoSound, 0))]

\* Channel.fadeout(ms)
ChannelFadeout(g, channel, ms) ==
    [g EXCEPT !.channels[channel] = IF @ = "idle" THEN "idle" ELSE "fade",
              !.commands = Append(@, Cmd("fadeout", channel, NoSound, ms))]

\* Channel.play(sound, loops)
ChannelPlay(g, channel, sound, loops) ==
    [g EXCEPT !.channels[channel] = IF loops = -1 THEN "loop" ELSE "once",
              !.commands = Append(@, Cmd("play", channel, sound, loops))]

\* Sound.set_volume(volume)
SetVolume(g, sound, volume) == [g EXCEPT !.sound_volume[sound] = volume]

\* del d[k]
Del(d, k) == [x \in DOMAIN d \ {k} |-> d[x]]

\* variant of turn_pad_on: a background sound is played once instead of looped
turn_pad_on_plays_once(g, note, velocity) ==
    LET sound_name == get_sound_name_for_note(note)
        g1 == IF note \in DOMAIN g.active_sounds
                THEN ChannelStop(g, g.active_sounds[note])
                ELSE g
        channel == find_channel(g1)
        final_volume == velocity_volume(velocity) * g1.master_volume
        g2 == SetVolume(g1, sound_name, final_volume)
    IN  IF sound_name = NoSound THEN g
        ELSE IF channel = 0 THEN g1
        ELSE IF is_big_pad_note(note)
          THEN [ChannelPlay(g2, channel, sound_name, 0) EXCEPT
                    !.active_sounds = Put(@, note, channel),
                    !.pad_states = Put(@, note, TRUE)]
          ELSE [ChannelPlay(g2, channel, sound_name, 0) EXCEPT
                    !.pad_states = Put(@, note, TRUE)]

\* variant of turn_pad_on: the channel of a melodic tone is stored as well
turn_pad_on_records_melodic(g, note, velocity) ==
    LET sound_name == get_sound_name_for_note(note)
        g1 == IF note \in DOMAIN g.active_sounds
                THEN ChannelStop(g, g.active_sounds[note])
                ELSE g
        channel == find_channel(g1)
        final_volume == velocity_volume(velocity) * g1.master_volume
        g2 == SetVolume(g1, sound_name, final_volume)
    IN  IF sound_name = NoSound THEN g
        ELSE IF channel = 0 THEN g1
        ELSE [ChannelPlay(g2, channel, sound_name, IF is_big_pad_note(note) THEN -1 ELSE 0)
                EXCEPT !.active_sounds = Put(@, note, channel),
                       !.pad_states = Put(@, note, TRUE)]

\* variant of turn_pad_on: the pad is marked ON before a channel is looked for
turn_pad_on_marks_first(g, note, velocity) ==
    LET sound_name == get_sound_name_for_note(note)
        g1 == IF note \in DOMAIN g.active_sounds
                THEN ChannelStop(g, g.active_sounds[note])
                ELSE g
        channel == find_channel(g1)
        final_volume == velocity_volume(velocity) * g1.master_volume
        g2 == SetVolume(g1, sound_name, final_volume)
    IN  IF sound_name = NoSound THEN g
        ELSE IF channel = 0 THEN [g1 EXCEPT !.pad_states = Put(@, note, TRUE)]
        ELSE IF is_big_pad_note(note)
          THEN [ChannelPlay(g2, channel, sound_name, -1) EXCEPT
                    !.active_sounds = Put(@, note, channel),
                    !.pad_states = Put(@, note, TRUE)]
          ELSE [ChannelPlay(g2, channel, sound_name, 0) EXCEPT
                    !.pad_states = Put(@, note, TRUE)]

turn_pad_on(g, note, velocity) ==
    LET sound_name == get_sound_name_for_note(note)
        g1 == IF note \in DOMAIN g.active_sounds
                THEN ChannelStop(g, g.active_sounds[note])
                ELSE g
        channel == find_channel(g1)
        final_volume == velocity_volume(velocity) * g1.master_volume
        g2 == SetVolume(g1, sound_name, final_volume)
    IN  IF sound_name = NoSound THEN g
        ELSE IF channel = 0 THEN g1
        ELSE IF is_big_pad_note(note)
          THEN [ChannelPlay(g2, channel, sound_name, -1) EXCEPT
                    !.active_sounds = Put(@, note, channel),
                    !.pad_states = Put(@, note, TRUE)]
          ELSE [ChannelPlay(g2, channel, sound_name, 0) EXCEPT
                    !.pad_states = Put(@, note, TRUE)]

\* the melodic branch of turn_pad_off
MelodicOff(g, note) ==
    LET sound_name == get_sound_name_for_note(note)
        off_sound == OffName(sound_name)
        channel == find_channel(g)
        final_volume == 508 * g.master_volume
    IN  IF sound_name # NoSound /\ off_sound \in CatalogKeys
          THEN IF channel # 0
                 THEN ChannelPlay(SetVolume(g, off_sound, final_volume), channel, off_sound, 0)
                 ELSE g
          ELSE g

\* variant of turn_pad_off: the handle of a faded background voice is kept
turn_pad_off_keeps_handle(g, note) ==
    LET g1 == IF is_big_pad_note(note)
                THEN IF note \in DOMAIN g.active_sounds
                       THEN ChannelFadeout(g, g.active_sounds[note], 300)
                       ELSE g
                ELSE MelodicOff(g, note)
    IN  [g1 EXCEPT !.pad_states = Put(@, note, FALSE)]

\* variant of turn_pad_off: the background voice is stopped at once
turn_pad_off_stops(g, note) ==
    LET g1 == IF is_big_pad_note(note)
                THEN IF note \in DOMAIN g.active_sounds
                       THEN [ChannelStop(g, g.active_sounds[note]) EXCEPT
                                !.active_sounds = Del(@, note)]
                       ELSE g
                ELSE MelodicOff(g, note)
    IN  [g1 EXCEPT !.pad_states = Put(@, note, FALSE)]

\* variant of turn_pad_off: the whole handle map is cleared
turn_pad_off_clears(g, note) ==
    LET g1 == IF is_big_pad_note(note)
                THEN IF note \in DOMAIN g.active_sounds
                       THEN [ChannelFadeout(g, g.active_sounds[note], 300) EXCEPT
                                !.active_sounds = << >>]
                       ELSE g
                ELSE MelodicOff(g, note)
    IN  [g1 EXCEPT !.pad_states = Put(@, note, FALSE)]

turn_pad_off(g, note) ==
    LET g1 == IF is_big_pad_note(note)
                THEN IF note \in DOMAIN g.active_sounds
                       THEN [ChannelFadeout(g, g.active_sounds[note], 300) EXCEPT
                                !.active_sounds = Del(@, note)]
                       ELSE g
                ELSE MelodicOff(g, note)
    IN  [g1 EXCEPT !.pad_states = Put(@, note, FALSE)]

\* variant of handle_note_toggle: the name is not looked up in the catalog
handle_note_toggle_unchecked(g, note, velocity) ==
    LET sound_name == get_sound_name_for_note(note)
        current_state == IF note \in DOMAIN g.pad_states THEN g.pad_states[note] ELSE FALSE
    IN  IF sound_name = NoSound THEN g
        ELSE IF current_state THEN turn_pad_off(g, note)
        ELSE turn_pad_on(g, note, velocity)

handle_note_toggle(g, note, velocity) ==
    LET sound_name == get_sound_name_for_note(note)
        current_state == IF note \in DOMAIN g.pad_states THEN g.pad_states[note] ELSE FALSE
    IN  IF sound_name = NoSound \/ sound_name \notin CatalogKeys THEN g
        ELSE IF current_state THEN turn_pad_off(g, note)
        ELSE turn_pad_on(g, note, velocity)

\* the notes whose channel passes "if channel and channel.get_busy()"
BusyNotes(g) == { n \in DOMAIN g.active_sounds : get_busy(g, g.active_sounds[n]) }

_update_all_volumes(g) ==
    LET final_volume == 762 * g.master_volume
        touched == { get_sound_name_for_note(n) : n \in BusyNotes(g) } \cap CatalogKeys
    IN  [g EXCEPT !.sound_volume =
            [s \in DOMAIN @ |-> IF s \in touched THEN final_volume ELSE @[s]]]

\* time_volume_modifier = 0.6 + (self.time_of_day * 0.4), in units of 1/1270
time_volume_modifier(g) == 762 + (2 * g.time_of_day) \div 5

_apply_environmental_effects_to_sound(g, note, sound_name) ==
    LET base_volume == (762 * g.master_volume * time_volume_modifier(g)) \div KnobUnit
    IN  IF note \in DOMAIN g.active_sounds /\ get_busy(g, g.active_sounds[note])
          THEN SetVolume(g, sound_name, base_volume)
          ELSE g

RECURSIVE ApplyEffects(_, _)
ApplyEffects(g, notes) ==
    IF notes = {} THEN g
    ELSE LET n == CHOOSE x \in notes : \A y \in notes : x <= y
         IN  ApplyEffects(_apply_environmental_effects_to_sound(g, n, get_sound_name_for_note(n)),
                          notes \ {n})

_update_all_audio_effects(g) ==
    ApplyEffects(g, { n \in BusyNotes(g) : get_sound_name_for_note(n) # NoSound })

\* variant of handle_control_change: the water knob writes the temperature
handle_control_change_wrong_knob(g, control, value) ==
    LET normalized_value == 10 * value
    IN  IF control = 10
          THEN _update_all_volumes([g EXCEPT !.master_volume = normalized_value])
        ELSE IF control = 16
          THEN _update_all_audio_effects([g EXCEPT !.temperature = normalized_value])
        ELSE IF control = 17
          THEN _update_all_audio_effects([g EXCEPT !.temperature = normalized_value])
        ELSE IF control = 18
          THEN _update_all_audio_effects([g EXCEPT !.time_of_day = normalized_value])
        ELSE IF control = 7
          THEN _update_all_audio_effects([g EXCEPT !.seasons = normalized_value])
        ELSE g

handle_control_change(g, control, value) ==
    LET normalized_value == 10 * value
    IN  IF control = 10
          THEN _update_all_volumes([g EXCEPT !.master_volume = normalized_value])
        ELSE IF control = 16
          THEN _update_all_audio_effects([g EXCEPT !.temperature = normalized_value])
        ELSE IF control = 17
          THEN _update_all_audio_effects([g EXCEPT !.water = normalized_value])
        ELSE IF control = 18
          THEN _update_all_audio_effects([g EXCEPT !.time_of_day = normalized_value])
        ELSE IF control = 7
          THEN _update_all_audio_effects([g EXCEPT !.seasons = normalized_value])
        ELSE g

\* the control numbers handle_control_change has a branch for
KnobControls == { 7, 10, 16, 17, 18 }

\* the field a control number writes
KnobValue(g, control) ==
    CASE control = 10 -> g.master_volume
      [] control = 16 -> g.temperature
      [] control = 17 -> g.water
      [] control = 18 -> g.time_of_day
      [] control = 7  -> g.seasons

\* a MIDI message (mido.Message): note and velocity, or control and value
Msg(type, number, data) == [type |-> type, number |-> number, data |-> data]

\* variant of process_midi_message: only a note-on with velocity toggles
process_midi_message_ignores_note_off(g, msg) ==
    IF msg.type = "note_on" /\ msg.data > 0
      THEN handle_note_toggle(g, msg.number, msg.data)
    ELSE IF msg.type = "control_change"
      THEN handle_control_change(g, msg.number, msg.data)
    ELSE g

process_midi_message(g, msg) ==
    IF msg.type = "note_on" /\ msg.data > 0
      THEN handle_note_toggle(g, msg.number, msg.data)
    ELSE IF msg.type = "note_off" \/ (msg.type = "note_on" /\ msg.data = 0)
      THEN handle_note_toggle(g, msg.number, 64)
    ELSE IF msg.type = "control_change"
      THEN handle_control_change(g, msg.number, msg.data)
    ELSE g

(***************************************************************************)
(* Inputs: the messages the controller sends.  An input set is a record of *)
(* the notes, velocities and (control, value) pairs messages are drawn     *)
(* from.  36 and 51 are mapped by both tables (36 to a background sound,   *)
(* 51 to a melodic tone), 40 only by the recorded file, and 67 is mapped   *)
(* by the recorded file to a name ('flower_17') that is not in the         *)
(* catalog.  Control 99 is bound to no knob.                               *)
(***************************************************************************)
PadInputs ==
    [notes      |-> { 36, 51, 67 },
     velocities |-> { 0, 20 },
     knobs      |-> { 10, 99 } \X { 127 }]

KnobInputs ==
    [notes      |-> { 36, 40 },
     velocities |-> { 127 },
     knobs      |-> ({ 10 } \X { 0, 127 }) \cup ({ 7, 16, 17, 18, 99 } \X { 127 })]

\* the threads: a background pad and a melodic pad, no knobs
ThreadInputs ==
    [notes      |-> { 36, 51 },
     velocities |-> { 127 },
     knobs      |-> { }]

\* a loaded file in use: one pad, the built-in volume control and control 20
RouterInputs ==
    [notes      |-> { 40 },
     velocities |-> { 127 },
     knobs      |-> { 10, 20 } \X { 127 }]

AllNotes == PadInputs.notes \cup KnobInputs.notes \cup ThreadInputs.notes
                \cup RouterInputs.notes

\* no generator is running
SynthIdle ==
    [generator |-> "none", wave_type |-> "", frequencies |-> << >>,
     frames |-> 0, i |-> 0, used |-> { }]

\* the fields __init__ sets before it calls load_midi_mappings; no sound plays
Constructed ==
    /\ pad_states = << >>
    /\ active_sounds = << >>
    /\ master_volume = 635
    /\ temperature = 635
    /\ water = 381
    /\ time_of_day = 635
    /\ seasons = 635
    /\ channels = [c \in Channels |-> "idle"]
    /\ sound_volume = [s \in CatalogKeys |-> GainUnit]
    /\ received = [n \in AllNotes |-> 0]
    /\ dropped = [n \in AllNotes |-> 0]
    /\ last = "none"
    /\ closing_tones = 0
    /\ synth = SynthIdle

\* no message: receive(block=False) returned None
NoMsg == Msg("none", 0, 0)

\* midi_monitor once the device has been looked for: without a device the
\* thread has returned, with one it is at the test of 'while self.running'
MidiThread(port) == [pc |-> IF port = "open" THEN "test" ELSE "exited", msg |-> NoMsg]

\* the dashboard is not inside _reset_garden
TuiIdle == [pc |-> "idle", note |-> 0, todo |-> { }]

\* a garden that start_garden has started, once the opening chord has ended:
\* the event thread has a device (or found none and returned), the status
\* thread sleeps between two passes
Init ==
    /\ \E file \in MappingFiles :
          /\ mapping_file = file
          /\ note_to_sound = load_midi_mappings(file)
    /\ Constructed
    /\ running = TRUE
    /\ midi_input \in { "open", "none" }
    /\ main_pc = "run"
    /\ status = [pc |-> "sleep", len |-> 0]
    /\ midi = MidiThread(midi_input)
    /\ tui = TuiIdle

\* the garden's fields take the values of record g
Becomes(g) ==
    /\ pad_states' = g.pad_states
    /\ active_sounds' = g.active_sounds
    /\ master_volume' = g.master_volume
    /\ temperature' = g.temperature
    /\ water' = g.water
    /\ time_of_day' = g.time_of_day
    /\ seasons' = g.seasons
    /\ channels' = g.channels
    /\ sound_volume' = g.sound_volume
    /\ running' = g.running
    /\ midi_input' = g.midi_input

\* pad_states.get(note, False)
IsOn(g, note) == IF note \in DOMAIN g.pad_states THEN g.pad_states[note] ELSE FALSE

\* handle_note_toggle does not return early for this note
Mapped(note) ==
    /\ get_sound_name_for_note(note) # NoSound
    /\ get_sound_name_for_note(note) \in CatalogKeys

\* turn_pad_on(note) finds no channel in g
NoChannelFor(g, note) ==
    find_channel(IF note \in DOMAIN g.active_sounds
                   THEN ChannelStop(g, g.active_sounds[note]) ELSE g) = 0

\* what handling msg in g amounts to
Outcome(g, msg) ==
    IF msg.type = "control_change"
      THEN IF msg.number \in KnobControls THEN "knob" ELSE "ignored"
    ELSE IF ~Mapped(msg.number) THEN "ignored"
    ELSE IF IsOn(g, msg.number) THEN "off"
    ELSE IF NoChannelFor(g, msg.number) THEN "dropped"
    ELSE "on"

\* midi_monitor: msg = receive(block=False); if msg: process_midi_message(msg)
Receive(msg) ==
    LET n == msg.number
        o == Outcome(Garden, msg)
    IN  /\ running
        /\ midi_input = "open"
        /\ Becomes(process_midi_message(Garden, msg))
        /\ last' = o
        /\ received' = IF o \in { "on", "off", "dropped" }
                         THEN [received EXCEPT ![n] = 1 - @] ELSE received
        /\ dropped' = IF o = "dropped" THEN [dropped EXCEPT ![n] = 1 - @] ELSE dropped
        /\ UNCHANGED << note_to_sound, mapping_file, threadVars, synth >>

NoteOn(inputs) ==
    \E note \in inputs.notes, velocity \in inputs.velocities :
        Receive(Msg("note_on", note, velocity))

NoteOff(inputs) == \E note \in inputs.notes : Receive(Msg("note_off", note, 0))

ControlChange(inputs) ==
    \E k \in inputs.knobs : Receive(Msg("control_change", k[1], k[2]))

\* the mixer finishes a one-shot sound or a fade: the channel is free again
ChannelDone ==
    \E c \in Channels :
        /\ channels[c] \in { "once", "fade" }
        /\ channels' = [channels EXCEPT ![c] = "idle"]
        /\ last' = "done"
        /\ UNCHANGED << note_to_sound, pad_states, active_sounds, master_volume, temperature,
                        water, time_of_day, seasons, sound_volume, received, dropped,
                        mapping_file, running, midi_input, threadVars, synth >>

\* MusicalGarden(): __init__ calls load_midi_mappings; an exception that
\* load_midi_mappings does not catch leaves __init__ and main reports it
Construct ==
    /\ main_pc = "construct"
    /\ IF Raises(mapping_file)
         THEN /\ main_pc' = "failed"
              /\ UNCHANGED note_to_sound
         ELSE /\ main_pc' = "ready"
              /\ note_to_sound' = load_midi_mappings(mapping_file)
    /\ UNCHANGED << pad_states, active_sounds, master_volume, temperature, water,
                    time_of_day, seasons, channels, sound_volume, received, dropped, last,
                    mapping_file, running, midi_input, closing_tones, status, synth, midi, tui >>

\* start_garden: the opening chord plays once on a free channel, the event
\* thread opens the device (or finds none and returns), the status thread starts
StartGarden ==
    /\ main_pc = "ready"
    /\ ~running
    /\ running' = TRUE
    /\ channels' = IF find_channel(Garden) = 0 THEN channels
                    ELSE [channels EXCEPT ![find_channel(Garden)] = "once"]
    /\ midi_input' \in { "open", "none" }
    /\ status' = [pc |-> "sleep", len |-> 0]
    /\ midi' = MidiThread(midi_input')
    /\ main_pc' = "run"
    /\ UNCHANGED << note_to_sound, pad_states, active_sounds, master_volume, temperature,
                    water, time_of_day, seasons, sound_volume, received, dropped, last,
                    mapping_file, closing_tones, synth, tui >>

\* for sound in self.active_sounds.values(): sound.fadeout(1000)
RECURSIVE FadeAll(_, _)
FadeAll(g, notes) ==
    IF notes = { } THEN g
    ELSE LET note == CHOOSE n \in notes : \A m \in notes : n <= m
         IN  FadeAll(ChannelFadeout(g, g.active_sounds[note], 1000), notes \ { note })

\* self.midi_input.close(), if there is a port
CloseMidi(g) ==
    IF g.midi_input = "none" THEN g
    ELSE [g EXCEPT !.midi_input = "closed",
                   !.commands = Append(@, Cmd("close", 0, NoSound, 0))]

\* the port closed first, the voices cut without a fade
_complete_shutdown_closes_first(g) ==
    [CloseMidi([g EXCEPT !.running = FALSE]) EXCEPT !.active_sounds = << >>]

_complete_shutdown(g) ==
    LET g1 == FadeAll([g EXCEPT !.running = FALSE], DOMAIN g.active_sounds)
    IN  CloseMidi([g1 EXCEPT !.active_sounds = << >>])

\* play_closing_ritual: closing_notes, in Hz / 100
closing_notes == << 39200, 32963, 26163 >>

\* stop_garden up to time.sleep(3.0): the closing tones are generated and a
\* timer is started for each
StopGarden ==
    /\ main_pc = "run"
    /\ running
    /\ main_pc' = "closing"
    /\ closing_tones' = Len(closing_notes)
    /\ UNCHANGED << note_to_sound, pad_states, active_sounds, master_volume, temperature,
                    water, time_of_day, seasons, channels, sound_volume, received, dropped,
                    last, mapping_file, running, midi_input, status, synth, midi, tui >>

\* a timer of the closing ritual fires: pygame.mixer.Sound.play(s) plays the
\* tone once on a free channel, if there is one
ClosingTone ==
    /\ closing_tones > 0
    /\ closing_tones' = closing_tones - 1
    /\ channels' = IF find_channel(Garden) = 0 THEN channels
                    ELSE [channels EXCEPT ![find_channel(Garden)] = "once"]
    /\ UNCHANGED << note_to_sound, pad_states, active_sounds, master_volume, temperature,
                    water, time_of_day, seasons, sound_volume, received, dropped, last,
                    mapping_file, running, midi_input, main_pc, status, synth, midi, tui >>

\* stop_garden after time.sleep(3.0), by when the timers (0 s, 0.8 s, 1.6 s)
\* have fired: _complete_shutdown
CompleteShutdown ==
    /\ main_pc = "closing"
    /\ closing_tones = 0
    /\ Becomes(_complete_shutdown(Garden))
    /\ main_pc' = "stopped"
    /\ last' = "shutdown"
    /\ UNCHANGED << note_to_sound, received, dropped, mapping_file, closing_tones,
                    status, synth, midi, tui >>

\* the exception propagates out of status_monitor: the thread dies
status_on_error_uncaught(e) == "dead"

\* except Exception as e: print(...): the pass ends, the thread sleeps
status_on_error(e) == "sleep"

\* an iterator over self.pad_states raises RuntimeError when the dict has
\* changed size since the iterator was created
IterationRaises == Cardinality(DOMAIN pad_states) # status.len

\* status_monitor, top of the loop: while self.running; the generator over
\* self.pad_states.values() is created
StatusBegin ==
    /\ status.pc = "sleep"
    /\ status' = IF running
                   THEN [pc |-> "count", len |-> Cardinality(DOMAIN pad_states)]
                   ELSE [pc |-> "exited", len |-> 0]
    /\ UNCHANGED << note_to_sound, pad_states, active_sounds, master_volume, temperature,
                    water, time_of_day, seasons, channels, sound_volume, received, dropped,
                    last, mapping_file, running, midi_input, main_pc, closing_tones, synth, midi, tui >>

\* status_monitor: active_count is summed; when the count has changed or ten
\* seconds have passed and a pad is ON, the loop over self.pad_states.items()
\* starts, otherwise the pass ends
StatusCount ==
    /\ status.pc = "count"
    /\ IF IterationRaises
         THEN /\ status' = [pc |-> status_on_error("RuntimeError"), len |-> 0]
              /\ last' = "status_error"
         ELSE /\ \E report \in BOOLEAN :
                    status' = IF report /\ \E n \in DOMAIN pad_states : pad_states[n]
                                THEN [pc |-> "list", len |-> Cardinality(DOMAIN pad_states)]
                                ELSE [pc |-> "sleep", len |-> 0]
              /\ UNCHANGED last
    /\ UNCHANGED << note_to_sound, pad_states, active_sounds, master_volume, temperature,
                    water, time_of_day, seasons, channels, sound_volume, received, dropped,
                    mapping_file, running, midi_input, main_pc, closing_tones, synth, midi, tui >>

\* status_monitor: the names of the pads that are ON are collected and
\* printed, the knob values are read, the thread sleeps
StatusList ==
    /\ status.pc = "list"
    /\ IF IterationRaises
         THEN /\ status' = [pc |-> status_on_error("RuntimeError"), len |-> 0]
              /\ last' = "status_error"
         ELSE /\ status' = [pc |-> "sleep", len |-> 0]
              /\ UNCHANGED last
    /\ UNCHANGED << note_to_sound, pad_states, active_sounds, master_volume, temperature,
                    water, time_of_day, seasons, channels, sound_volume, received, dropped,
                    mapping_file, running, midi_input, main_pc, closing_tones, synth, midi, tui >>

\* for note in list(pad_states.keys()): if ON and a big pad: turn_pad_off(note)
RECURSIVE ResetPads(_, _)
ResetPads(g, notes) ==
    IF notes = { } THEN g
    ELSE LET note == CHOOSE n \in notes : \A m \in notes : n <= m
         IN  ResetPads(IF g.pad_states[note] /\ is_big_pad_note(note)
                         THEN turn_pad_off(g, note) ELSE g,
                       notes \ { note })

_reset_garden(g) == ResetPads(g, DOMAIN g.pad_states)

\* the dashboard's reset key while the garden runs
ResetGarden ==
    /\ running
    /\ Becomes(_reset_garden(Garden))
    /\ last' = "reset"
    /\ UNCHANGED << note_to_sound, received, dropped, mapping_file, threadVars, synth >>

\* the pad state machine: note events, the master-volume knob, an unbound control
Next ==
    \/ NoteOn(PadInputs)
    \/ NoteOff(PadInputs)
    \/ ControlChange(PadInputs)
    \/ ChannelDone

Spec == Init /\ [][Next]_vars

\* the knobs: every knob role, over looping background voices
NextKnobs ==
    \/ NoteOn(KnobInputs)
    \/ ControlChange(KnobInputs)
    \/ ChannelDone

SpecKnobs == Init /\ [][NextKnobs]_vars

\* a garden that is being constructed: a file, or none, lies on disk
InitRouter ==
    /\ mapping_file \in RouterFiles
    /\ note_to_sound = << >>
    /\ Constructed
    /\ running = FALSE
    /\ midi_input = "none"
    /\ main_pc = "construct"
    /\ status = [pc |-> "none", len |-> 0]
    /\ midi = [pc |-> "none", msg |-> NoMsg]
    /\ tui = TuiIdle

\* the router: construction from a file, start, and the mapping in use
NextRouter ==
    \/ Construct
    \/ StartGarden
    \/ NoteOn(RouterInputs)
    \/ ControlChange(RouterInputs)
    \/ ChannelDone

SpecRouter == InitRouter /\ [][NextRouter]_vars

(***************************************************************************)
(* The sample loops of the generators.  Frequencies are in Hz / 1000.      *)
(***************************************************************************)
\* number of samples of the longest buffer generated
MaxFrames == 3

\* if frequency < 200: frequency = 200 elif frequency > 4000: frequency = 4000
Clamp(frequency) ==
    IF frequency < 200000 THEN 200000
    ELSE IF frequency > 4000000 THEN 4000000
    ELSE frequency

\* frequency arguments: below, at, inside and above the limits
ToneFrequencies == { 100000, 200000, 261630, 4000000, 5000000 }

WaveTypes == { "sine", "triangle", "sawtooth", "noise" }

\* lists of frequencies given to _create_chord: the opening chord, and one
\* with a frequency on either side of the limits
ChordFrequencies == { << 261630, 329630, 392000 >>, << 100000, 5000000 >> }

\* what no step of a sample loop changes
gardenVars ==
    << note_to_sound, pad_states, active_sounds, master_volume, temperature, water,
       time_of_day, seasons, channels, sound_volume, received, dropped, last,
       mapping_file, running, midi_input, threadVars >>

\* generate_tone is called: frames = int(duration * sample_rate)
GenerateTone ==
    /\ synth.generator = "none"
    /\ \E frequency \in ToneFrequencies, wave_type \in WaveTypes, frames \in 1..MaxFrames :
          synth' = [generator |-> "generate_tone", wave_type |-> wave_type,
                    frequencies |-> << frequency >>, frames |-> frames, i |-> 0,
                    used |-> { }]
    /\ UNCHANGED gardenVars

\* one pass of the loop of generate_tone: the wave is computed from frequency
\* (not for noise), then frequency is limited, then the sample is stored
ToneSample ==
    /\ synth.generator = "generate_tone"
    /\ synth.i < synth.frames
    /\ synth' = [synth EXCEPT
                    !.used = IF synth.wave_type = "noise" THEN { }
                             ELSE { synth.frequencies[1] },
                    !.frequencies = << Clamp(synth.frequencies[1]) >>,
                    !.i = @ + 1]
    /\ UNCHANGED gardenVars

\* _create_chord is called
CreateChord ==
    /\ synth.generator = "none"
    /\ \E frequencies \in ChordFrequencies, frames \in 1..MaxFrames :
          synth' = [generator |-> "_create_chord", wave_type |-> "sine",
                    frequencies |-> frequencies, frames |-> frames, i |-> 0, used |-> { }]
    /\ UNCHANGED gardenVars

\* one pass of the outer loop of _create_chord: each frequency of the list is
\* limited before its sine is computed
ChordSample ==
    /\ synth.generator = "_create_chord"
    /\ synth.i < synth.frames
    /\ synth' = [synth EXCEPT
                    !.used = { Clamp(synth.frequencies[k]) : k \in DOMAIN synth.frequencies },
                    !.i = @ + 1]
    /\ UNCHANGED gardenVars

\* _create_earth_sound is called: c2_freq, g2_freq, c3_freq
CreateEarthSound ==
    /\ synth.generator = "none"
    /\ \E frames \in 1..MaxFrames :
          synth' = [generator |-> "_create_earth_sound", wave_type |-> "sine",
                    frequencies |-> << 65410, 98000, 130810 >>, frames |-> frames,
                    i |-> 0, used |-> { }]
    /\ UNCHANGED gardenVars

\* one pass of the loop of _create_earth_sound: the sines of C2 and its
\* harmonics 2 and 3, of G2 and its harmonic 2, of C3 and its harmonic 1.5
EarthSample ==
    /\ synth.generator = "_create_earth_sound"
    /\ synth.i < synth.frames
    /\ LET c2_freq == synth.frequencies[1]
           g2_freq == synth.frequencies[2]
           c3_freq == synth.frequencies[3]
       IN  synth' = [synth EXCEPT
                       !.used = { c2_freq, c2_freq * 2, c2_freq * 3, g2_freq, g2_freq * 2,
                                  c3_freq, (c3_freq * 3) \div 2 },
                       !.i = @ + 1]
    /\ UNCHANGED gardenVars

\* the loop has ended: pygame.sndarray.make_sound(arr) is returned
MakeSound ==
    /\ synth.generator # "none"
    /\ synth.i = synth.frames
    /\ synth' = SynthIdle
    /\ UNCHANGED gardenVars

\* the generators
NextSynth ==
    \/ GenerateTone
    \/ ToneSample
    \/ CreateChord
    \/ ChordSample
    \/ CreateEarthSound
    \/ EarthSample
    \/ MakeSound

SpecSynth == Init /\ [][NextSynth]_vars

(***************************************************************************)
(* The sample values of the generated buffers.  Coefficients, modulation   *)
(* factors and envelopes are in units of 1/1000, samples in units of       *)
(* 1/1000000, times in ms.  A sine takes the values -1, 0, 1; a modulation *)
(* or an envelope takes the ends of its range.                             *)
(***************************************************************************)
\* self.sample_rate, scaled down (the code's default is 22050)
SampleRate == 10

\* what a generator's loop computes: wave = sum of partials[k] * sin(...),
\* times every factor (a range << min, max >>), times the fade-out envelope
\* over the last fade_out_time (0: the generator applies none), times volume
Layers(partials, factors, volume, duration, fade_out_time) ==
    [partials |-> partials, factors |-> factors, volume |-> volume,
     duration |-> duration, fade_out_time |-> fade_out_time]

\* an attack, decay or percussive envelope: from 0 to 1
Envelope == << 0, 1000 >>

BufferKinds ==
    { "earth", "rain", "wind", "thunder", "trees", "birds", "insects", "sun",
      "bell", "soft", "bright", "sparkle",
      "bell_off", "soft_off", "bright_off", "sparkle_off", "chord", "tone" }

Generator(kind) ==
    CASE kind = "earth" ->
           Layers(<< 700, 250, 150, 500, 200, 400, 150 >>,
                  << << 992, 1008 >>, << 640, 1000 >> >>, 154, 4000, 0)
      [] kind = "rain" -> Layers(<< 1000, 150 >>, << Envelope >>, 80, 4000, 0)
      [] kind = "wind" ->
           Layers(<< 600, 200, 100, 500, 150, 450, 120 >>,
                  << << 995, 1005 >>, << -200, 1000 >>, << 850, 1150 >> >>, 90, 4000, 0)
      [] kind = "thunder" ->
           Layers(<< 800, 400, 200, 600, 300, 500, 250, 150 >>, << Envelope >>, 220, 4000, 0)
      [] kind = "trees" ->
           Layers(<< 1000, 300, 200 >>, << Envelope, << 400, 1000 >> >>, 120, 4000, 0)
      [] kind = "birds" -> Layers(<< 1000 >>, << Envelope >>, 80, 4000, 0)
      [] kind = "insects" ->
           Layers(<< 1000, 400, 200, 100 >>, << Envelope, << 250, 800 >> >>, 90, 4000, 0)
      [] kind = "sun" -> Layers(<< 1000, 300, 200 >>, << << 900, 1100 >> >>, 150, 4000, 0)
      [] kind = "bell" -> Layers(<< 1000, 300, 100 >>, << Envelope, Envelope >>, 280, 700, 100)
      [] kind = "soft" -> Layers(<< 1000 >>, << Envelope, Envelope >>, 280, 700, 100)
      [] kind = "bright" -> Layers(<< 1000, 200 >>, << Envelope, Envelope >>, 280, 700, 100)
      [] kind = "sparkle" ->
           Layers(<< 1000, 400, 200 >>, << Envelope, Envelope >>, 280, 700, 100)
      [] kind = "bell_off" -> Layers(<< 1000, 150 >>, << Envelope, Envelope >>, 180, 300, 50)
      [] kind = "soft_off" -> Layers(<< 1000 >>, << Envelope, Envelope >>, 180, 300, 50)
      [] kind = "bright_off" -> Layers(<< 1000, 100 >>, << Envelope, Envelope >>, 180, 300, 50)
      [] kind = "sparkle_off" ->
           Layers(<< 1000, 200, 100 >>, << Envelope, Envelope >>, 180, 300, 50)
      [] kind = "chord" -> Layers(<< 1000 >>, << Envelope >>, 200, 2000, 0)
      [] kind = "tone" -> Layers(<< 1000 >>, << Envelope >>, 300, 1000, 0)

\* frames = int(duration * sample_rate)
Frames(kind) == (Generator(kind).duration * SampleRate) \div 1000

\* how the sines of the partials stand: all at 1, all at -1, all at 0, or
\* alternately at 1 and -1
Phases == { "up", "down", "zero", "alternate" }

RECURSIVE PartialSum(_, _, _)
PartialSum(partials, phase, k) ==
    IF k > Len(partials) THEN 0
    ELSE (CASE phase = "up" -> partials[k]
            [] phase = "down" -> 0 - partials[k]
            [] phase = "zero" -> 0
            [] phase = "alternate" -> IF k % 2 = 1 THEN partials[k] ELSE 0 - partials[k])
         + PartialSum(partials, phase, k + 1)

\* wave * factor for every factor; ends[j] tells which end of range j is taken
RECURSIVE Modulated(_, _, _, _)
Modulated(wave, factors, ends, j) ==
    IF j > Len(factors) THEN wave
    ELSE Modulated((wave * factors[j][ends[j]]) \div 1000, factors, ends, j + 1)

\* the strikes (thunder) or calls (birds) whose window holds sample i, t =
\* i / sample_rate: 'wave +=' runs once for each; one voice otherwise
Voices(kind, i) ==
    CASE kind = "thunder" ->
           Cardinality({ strike_time \in { 300, 2200 } :
                           /\ i * 1000 >= strike_time * SampleRate
                           /\ i * 1000 <= (strike_time + 1800) * SampleRate })
      [] kind = "birds" ->
           Cardinality({ bird_time \in { 500, 1800, 3200 } :
                           /\ i * 1000 > (bird_time - 300) * SampleRate
                           /\ i * 1000 < (bird_time + 300) * SampleRate })
      [] OTHER -> 1

\* fade_out_env = (duration - t) / fade_out_time if t > duration -
\* fade_out_time else 1.0; 1.0 for a generator without a fade-out
FadeOutEnv(kind, i) ==
    LET gen == Generator(kind)
    IN  IF gen.fade_out_time = 0 THEN 1000
        ELSE IF i * 1000 > (gen.duration - gen.fade_out_time) * SampleRate
          THEN ((gen.duration * SampleRate - i * 1000) * 1000)
                   \div (gen.fade_out_time * SampleRate)
        ELSE 1000

\* every generator at full volume
VolumeFull(kind) == 1000

\* the final factor of a generator: 0.154, 0.08, 0.09, 0.22, ...
Volume(kind) == Generator(kind).volume

\* arr[i] of a generator, in units of 1/1000000
Sample(kind, i, phase, ends) ==
    LET gen  == Generator(kind)
        wave == Voices(kind, i)
                  * Modulated(PartialSum(gen.partials, phase, 1), gen.factors, ends, 1)
    IN  ((wave * FadeOutEnv(kind, i)) \div 1000) * Volume(kind)

\* (arr * 32767) as an integer, before the conversion to int16
Scaled(sample) ==
    IF sample >= 0 THEN ((sample \div 100) * 32767) \div 10000
    ELSE 0 - (((0 - sample) \div 100) * 32767) \div 10000

\* astype(np.int16): the low 16 bits, signed
Int16(n) == ((n + 32768) % 65536) - 32768

\* a generator of the catalog, _create_chord or generate_tone is called
CreateBuffer ==
    /\ synth.generator = "none"
    /\ \E kind \in BufferKinds :
          synth' = [generator |-> kind, wave_type |-> "", frequencies |-> << >>,
                    frames |-> Frames(kind), i |-> 0, used |-> { },
                    sample |-> 0, fade_out_env |-> 1000, quantized |-> 0]
    /\ UNCHANGED gardenVars

\* one pass of the generator's loop stores arr[i]
BufferSample ==
    /\ synth.generator \in BufferKinds
    /\ synth.i < synth.frames
    /\ \E phase \in Phases,
          ends \in [1..Len(Generator(synth.generator).factors) -> { 1, 2 }] :
          LET sample == Sample(synth.generator, synth.i, phase, ends)
          IN  synth' = [synth EXCEPT
                          !.sample = sample,
                          !.fade_out_env = FadeOutEnv(synth.generator, synth.i),
                          !.quantized = Int16(Scaled(sample)),
                          !.i = @ + 1]
    /\ UNCHANGED gardenVars

\* arr = (arr * 32767).astype(np.int16); return pygame.sndarray.make_sound(arr)
BufferDone ==
    /\ synth.generator \in BufferKinds
    /\ synth.i = synth.frames
    /\ synth' = SynthIdle
    /\ UNCHANGED gardenVars

\* the buffers
NextSamples ==
    \/ CreateBuffer
    \/ BufferSample
    \/ BufferDone

SpecSamples == Init /\ [][NextSamples]_vars

(***************************************************************************)
(* The listener.  TUI.start sets garden._tui_callback = self._add_activity; *)
(* turn_pad_on and turn_pad_off call it with a message where they print.   *)
(***************************************************************************)
\* _tui_callback: None, a callable that returns, a callable that raises
Listeners == { "none", "returns", "raises" }

\* the garden at the moment handling msg calls the listener: turn_pad_on
\* calls it as its last statement, turn_pad_off before its last statement,
\* self.pad_states[note] = False
AtCallback(g, msg) ==
    IF Outcome(g, msg) = "off"
      THEN [process_midi_message(g, msg) EXCEPT !.pad_states = g.pad_states]
      ELSE process_midi_message(g, msg)

\* handling msg with the given listener attached: an exception of the
\* listener leaves the handler and is dropped by midi_monitor's 'except: pass'
process_midi_message_listened(g, msg, listener) ==
    IF listener = "raises" /\ Outcome(g, msg) \in { "on", "off" }
      THEN AtCallback(g, msg)
      ELSE process_midi_message(g, msg)

\* what the listener can read of note's pad in g
PadView(g, note) == [state |-> IsOn(g, note), handle |-> note \in DOMAIN g.active_sounds]

\* midi_monitor handles msg while a listener may be attached
ReceiveListened(msg) ==
    LET n == msg.number
        o == Outcome(Garden, msg)
    IN  /\ running
        /\ midi_input = "open"
        /\ \E listener \in Listeners :
              Becomes(process_midi_message_listened(Garden, msg, listener))
        /\ last' = o
        /\ received' = IF o \in { "on", "off", "dropped" }
                         THEN [received EXCEPT ![n] = 1 - @] ELSE received
        /\ dropped' = IF o = "dropped" THEN [dropped EXCEPT ![n] = 1 - @] ELSE dropped
        /\ UNCHANGED << note_to_sound, mapping_file, threadVars, synth >>

NoteOnListened ==
    \E note \in PadInputs.notes, velocity \in PadInputs.velocities :
        ReceiveListened(Msg("note_on", note, velocity))

NoteOffListened ==
    \E note \in PadInputs.notes : ReceiveListened(Msg("note_off", note, 0))

\* the event thread of a garden run under the dashboard
NextListened ==
    \/ NoteOnListened
    \/ NoteOffListened
    \/ ChannelDone

SpecListened == Init /\ [][NextListened]_vars

\* the threads of a started garden: the event thread, the status thread, the
\* dashboard's reset, and the main thread stopping the garden
NextThreads ==
    \/ NoteOn(ThreadInputs)
    \/ ChannelDone
    \/ ResetGarden
    \/ StatusBegin
    \/ StatusCount
    \/ StatusList
    \/ StopGarden
    \/ ClosingTone
    \/ CompleteShutdown

SpecThreads == Init /\ [][NextThreads]_vars

(***************************************************************************)
(* The loop of midi_monitor, statement by statement: the test of 'while    *)
(* self.running', the call of receive, the handling of the message.        *)
(***************************************************************************)
\* the messages that may be waiting at the port
Pending == { Msg("note_on", note, velocity) :
                note \in ThreadInputs.notes, velocity \in ThreadInputs.velocities }

\* receive(block=True): the call returns only with a message
receive_blocking(port, pending) == IF port = "open" THEN pending ELSE { }

\* self.midi_input.receive(block=False): a waiting message or None; a closed
\* port returns None
receive(port, pending) == IF port = "open" THEN pending \cup { NoMsg } ELSE { NoMsg }

\* while self.running:
MidiTest ==
    /\ midi.pc = "test"
    /\ midi' = [midi EXCEPT !.pc = IF running THEN "receive" ELSE "exited"]
    /\ UNCHANGED << note_to_sound, pad_states, active_sounds, master_volume, temperature,
                    water, time_of_day, seasons, channels, sound_volume, received, dropped,
                    last, mapping_file, running, midi_input, main_pc, closing_tones, status,
                    tui, synth >>

\* msg = self.midi_input.receive(block=False); without a message the thread
\* sleeps 1 ms and is back at the test
MidiReceive ==
    /\ midi.pc = "receive"
    /\ \E msg \in receive(midi_input, Pending) :
          midi' = IF msg = NoMsg THEN [pc |-> "test", msg |-> NoMsg]
                  ELSE [pc |-> "process", msg |-> msg]
    /\ UNCHANGED << note_to_sound, pad_states, active_sounds, master_volume, temperature,
                    water, time_of_day, seasons, channels, sound_volume, received, dropped,
                    last, mapping_file, running, midi_input, main_pc, closing_tones, status,
                    tui, synth >>

\* if msg: self.process_midi_message(msg), or an exception that 'except:
\* pass' drops (taken here before the handler has written anything); then
\* the thread sleeps 1 ms and is back at the test
MidiProcess ==
    LET n == midi.msg.number
        o == Outcome(Garden, midi.msg)
    IN  /\ midi.pc = "process"
        /\ \/ /\ Becomes(process_midi_message(Garden, midi.msg))
              /\ last' = o
              /\ received' = IF o \in { "on", "off", "dropped" }
                               THEN [received EXCEPT ![n] = 1 - @] ELSE received
              /\ dropped' = IF o = "dropped" THEN [dropped EXCEPT ![n] = 1 - @] ELSE dropped
           \/ /\ last' = "raised"
              /\ UNCHANGED << pad_states, active_sounds, master_volume, temperature, water,
                              time_of_day, seasons, channels, sound_volume, running,
                              midi_input, received, dropped >>
        /\ midi' = [pc |-> "test", msg |-> NoMsg]
        /\ UNCHANGED << note_to_sound, mapping_file, main_pc, closing_tones, status, tui,
                        synth >>

\* the event thread and the status thread while the main thread stops the garden
NextLoops ==
    \/ MidiTest
    \/ MidiReceive
    \/ MidiProcess
    \/ StatusBegin
    \/ StatusCount
    \/ StatusList
    \/ StopGarden
    \/ ClosingTone
    \/ CompleteShutdown

SpecLoops == Init /\ [][NextLoops]_vars

\* the event thread while the main thread stops the garden and the mixer
\* finishes sounds
NextShutdown ==
    \/ MidiTest
    \/ MidiReceive
    \/ MidiProcess
    \/ ChannelDone
    \/ StopGarden
    \/ ClosingTone
    \/ CompleteShutdown

SpecShutdown == Init /\ [][NextShutdown]_vars

(***************************************************************************)
(* The dashboard's reset, statement by statement, beside the event thread. *)
(***************************************************************************)
\* what a step of _reset_garden leaves alone besides the maps it writes
resetFrame ==
    << note_to_sound, master_volume, temperature, water, time_of_day, seasons, sound_volume,
       received, dropped, mapping_file, running, midi_input, main_pc, closing_tones, status,
       midi, synth >>

\* key 'r': for note in list(self.garden.pad_states.keys())
ResetBegin ==
    /\ tui.pc = "idle"
    /\ running
    /\ tui' = [pc |-> "next", note |-> 0, todo |-> DOMAIN pad_states]
    /\ UNCHANGED << pad_states, active_sounds, channels, last, resetFrame >>

\* the next note of the list: if pad_states[note] and is_big_pad_note(note),
\* turn_pad_off(note) is entered; after the last one the reset is over
ResetNext ==
    /\ tui.pc = "next"
    /\ IF tui.todo = { } THEN tui' = TuiIdle
       ELSE LET note == CHOOSE n \in tui.todo : \A m \in tui.todo : n <= m
            IN  tui' = [pc |-> IF pad_states[note] /\ is_big_pad_note(note)
                                 THEN "check" ELSE "next",
                        note |-> note, todo |-> tui.todo \ { note }]
    /\ UNCHANGED << pad_states, active_sounds, channels, last, resetFrame >>

\* turn_pad_off: if note in self.active_sounds
ResetCheck ==
    /\ tui.pc = "check"
    /\ tui' = [tui EXCEPT !.pc = IF tui.note \in DOMAIN active_sounds THEN "fade" ELSE "clear"]
    /\ UNCHANGED << pad_states, active_sounds, channels, last, resetFrame >>

\* turn_pad_off: channel = self.active_sounds[note]; channel.fadeout(300);
\* del self.active_sounds[note].  Without the key the subscript raises
\* KeyError, which leaves _reset_garden and is dropped by _handle_input
ResetFade ==
    /\ tui.pc = "fade"
    /\ IF tui.note \in DOMAIN active_sounds
         THEN /\ channels' = ChannelFadeout(Garden, active_sounds[tui.note], 300).channels
              /\ active_sounds' = Del(active_sounds, tui.note)
              /\ tui' = [tui EXCEPT !.pc = "clear"]
              /\ UNCHANGED last
         ELSE /\ tui' = TuiIdle
              /\ last' = "reset_error"
              /\ UNCHANGED << channels, active_sounds >>
    /\ UNCHANGED << pad_states, resetFrame >>

\* turn_pad_off: self.pad_states[note] = False
ResetClear ==
    /\ tui.pc = "clear"
    /\ pad_states' = Put(pad_states, tui.note, FALSE)
    /\ tui' = [tui EXCEPT !.pc = "next"]
    /\ last' = "reset"
    /\ UNCHANGED << active_sounds, channels, resetFrame >>

\* the event thread and the dashboard's reset
NextReset ==
    \/ NoteOn(ThreadInputs)
    \/ ChannelDone
    \/ ResetBegin
    \/ ResetNext
    \/ ResetCheck
    \/ ResetFade
    \/ ResetClear

SpecReset == Init /\ [][NextReset]_vars

\* both threads are scheduled again and again; sleep returns
SpecLoopsFair ==
    /\ SpecLoops
    /\ WF_vars(MidiTest) /\ WF_vars(MidiReceive) /\ WF_vars(MidiProcess)
    /\ WF_vars(StatusBegin) /\ WF_vars(StatusCount) /\ WF_vars(StatusList)

TypeOK ==
    /\ running \in BOOLEAN
    /\ midi_input \in { "none", "open", "closed" }
    /\ main_pc \in { "construct", "ready", "failed", "run", "closing", "stopped" }
    /\ closing_tones \in 0..Len(closing_notes)
    /\ status.pc \in { "none", "sleep", "count", "list", "exited" }
    /\ synth.i \in 0..synth.frames
    /\ DOMAIN pad_states \subseteq DOMAIN note_to_sound
    /\ \A n \in DOMAIN pad_states : pad_states[n] \in BOOLEAN
    /\ \A n \in DOMAIN active_sounds : active_sounds[n] \in Channels
    /\ { master_volume, temperature, water, time_of_day, seasons } \subseteq 0..KnobUnit
    /\ \A s \in CatalogKeys : sound_volume[s] \in 0..GainUnit

(***************************************************************************)
(* Properties of the pad state machine.  A property of a handler is stated *)
(* as an invariant: in every reachable state, the result of handling any   *)
(* message of the stated kind has the stated shape.                        *)
(***************************************************************************)
\* the messages that can carry a toggle for a note
NoteMsgs(note) ==
    { Msg("note_on", note, v) : v \in { 0, 1, 20, 64, 127 } } \cup { Msg("note_off", note, 0) }

\* the commands of a given kind in a command list
CmdsOf(cmds, op) == SelectSeq(cmds, LAMBDA c : c.op = op)

\* C1 (as claimed): for every mapped identifier, every qualifying note event
\* (note-on with velocity, note-on with velocity 0, note-off) flips the
\* identifier's recorded pad state.
C1_EveryEventFlips ==
    \A n \in PadInputs.notes : \A msg \in NoteMsgs(n) :
        Mapped(n) => IsOn(process_midi_message(Garden, msg), n) = ~IsOn(Garden, n)

\* C1 (amended): every qualifying note event flips the pad state of a mapped
\* identifier, whatever its kind, except an event that arrives while the pad
\* is OFF and no channel can be found: that one leaves the pad OFF.
C1_EventFlipsUnlessDropped ==
    \A n \in PadInputs.notes : \A msg \in NoteMsgs(n) :
        Mapped(n) =>
            IsOn(process_midi_message(Garden, msg), n) =
                IF ~IsOn(Garden, n) /\ NoChannelFor(Garden, n) THEN FALSE ELSE ~IsOn(Garden, n)

\* C1 witness: a pad that was turned ON has just been flipped back to OFF
C1_Witness ==
    /\ last = "off"
    /\ \E n \in DOMAIN pad_states : Mapped(n) /\ ~pad_states[n] /\ received[n] = 0

\* C2 (as claimed): after an even number of toggle events for an identifier
\* its pad state is OFF and no voice handle is recorded for it.
C2_EvenReceivedIsOff ==
    \A n \in AllNotes :
        received[n] = 0 => ~IsOn(Garden, n) /\ n \notin DOMAIN active_sounds

\* C2 (amended): when the number of toggle events for an identifier, not
\* counting the ON requests dropped for lack of a channel, is even, its pad
\* state is OFF and no voice handle is recorded for it.
C2_EvenToggledIsOff ==
    \A n \in AllNotes :
        (received[n] + dropped[n]) % 2 = 0 => ~IsOn(Garden, n) /\ n \notin DOMAIN active_sounds

\* C2 witness: a background pad has been toggled ON and OFF again
C2_Witness ==
    \E n \in DOMAIN pad_states :
        is_big_pad_note(n) /\ received[n] = 0 /\ dropped[n] = 0 /\ ~pad_states[n]

\* C3: handling a toggle for a background identifier that is OFF, with a
\* channel available, stops the previously recorded voice if there is one,
\* starts exactly one voice looping indefinitely, records its handle and
\* sets the pad ON; the next toggle for it sets the pad OFF and removes the
\* handle.
C3_BackgroundOnThenOff ==
    \A n \in PadInputs.notes : \A msg \in NoteMsgs(n) :
        LET g1 == process_midi_message(Garden, msg)
            plays == CmdsOf(g1.commands, "play")
        IN  /\ (Mapped(n) /\ is_big_pad_note(n) /\ ~IsOn(Garden, n) /\ ~NoChannelFor(Garden, n)) =>
                  /\ n \in DOMAIN active_sounds =>
                        Head(g1.commands) = Cmd("stop", active_sounds[n], NoSound, 0)
                  /\ Len(plays) = 1
                  /\ plays[1].sound = get_sound_name_for_note(n)
                  /\ plays[1].arg = -1
                  /\ n \in DOMAIN g1.active_sounds
                  /\ g1.active_sounds[n] = plays[1].channel
                  /\ g1.channels[plays[1].channel] = "loop"
                  /\ IsOn(g1, n)
            /\ (Mapped(n) /\ is_big_pad_note(n) /\ IsOn(Garden, n)) =>
                  /\ ~IsOn(g1, n)
                  /\ n \notin DOMAIN g1.active_sounds

\* C3 witness: a background pad has just been turned ON and its voice loops
C3_Witness ==
    /\ last = "on"
    /\ \E n \in DOMAIN active_sounds :
          is_big_pad_note(n) /\ pad_states[n] /\ channels[active_sounds[n]] = "loop"

\* C4: turning OFF a background identifier that has a recorded voice issues
\* one fade of 300 ms to that voice, no stop, and discards the handle.
C4_BackgroundOffFades ==
    \A n \in PadInputs.notes : \A msg \in NoteMsgs(n) :
        (Mapped(n) /\ is_big_pad_note(n) /\ IsOn(Garden, n) /\ n \in DOMAIN active_sounds) =>
            LET g1 == process_midi_message(Garden, msg)
            IN  /\ g1.commands = << Cmd("fadeout", active_sounds[n], NoSound, 300) >>
                /\ g1.channels[active_sounds[n]] = "fade"
                /\ n \notin DOMAIN g1.active_sounds

\* C4 witness: a background pad has just been turned OFF and its voice fades
C4_Witness ==
    /\ last = "off"
    /\ \E n \in DOMAIN pad_states : is_big_pad_note(n) /\ ~pad_states[n]
    /\ \E c \in Channels : channels[c] = "fade"

\* C5: no voice handle is ever recorded for a melodic identifier, and every
\* play a melodic identifier causes is a single play without looping.
C5_MelodicFireAndForget ==
    /\ \A n \in DOMAIN active_sounds : is_big_pad_note(n)
    /\ \A n \in PadInputs.notes : \A msg \in NoteMsgs(n) :
          (Mapped(n) /\ ~is_big_pad_note(n)) =>
              LET g1 == process_midi_message(Garden, msg)
                  plays == CmdsOf(g1.commands, "play")
              IN  /\ n \notin DOMAIN g1.active_sounds
                  /\ Len(plays) <= 1
                  /\ \A i \in 1..Len(plays) : plays[i].arg = 0
                  /\ Len(plays) = Len(g1.commands)

\* C5 witness: a melodic pad is ON while a one-shot tone plays
C5_Witness ==
    /\ last \in { "on", "off" }
    /\ \E n \in DOMAIN pad_states : ~is_big_pad_note(n) /\ pad_states[n]
    /\ \E c \in Channels : channels[c] = "once"

\* handling a toggle for the note in g asks for a channel and finds none
AcquisitionFails(g, note) ==
    IF IsOn(g, note)
      THEN /\ ~is_big_pad_note(note)
           /\ OffName(get_sound_name_for_note(note)) \in CatalogKeys
           /\ find_channel(g) = 0
      ELSE NoChannelFor(g, note)

\* C6 (as claimed): when a melodic pad is turned ON at any velocity and then
\* OFF, at any master volume, the 'off' buffer is played at a lower gain
\* than the 'on' buffer was.
C6_OffQuieterThanOn ==
    \A n \in PadInputs.notes : \A v \in 0..127 :
        LET on_name == get_sound_name_for_note(n)
            g1 == process_midi_message(Garden, Msg("note_on", n, v))
            g2 == process_midi_message([g1 EXCEPT !.commands = << >>], Msg("note_on", n, v))
        IN  (Mapped(n) /\ ~is_big_pad_note(n) /\ ~IsOn(Garden, n) /\ IsOn(g1, n)
               /\ Len(CmdsOf(g2.commands, "play")) = 1) =>
                g2.sound_volume[OffName(on_name)] < g1.sound_volume[on_name]

\* C7 (as claimed): when handling a toggle finds no channel, nothing is
\* played and the pad state and the voice handles are left as they were.
C7_FailedAcquisitionKeepsState ==
    \A n \in PadInputs.notes : \A msg \in NoteMsgs(n) :
        (Mapped(n) /\ AcquisitionFails(Garden, n)) =>
            LET g1 == process_midi_message(Garden, msg)
            IN  /\ CmdsOf(g1.commands, "play") = << >>
                /\ g1.pad_states = pad_states
                /\ g1.active_sounds = active_sounds

\* C8: a note message whose note has no sound name, or a name that is not in
\* the catalog, and a control-change message whose control is bound to no
\* knob, change nothing and issue no command.
C8_UnmappedIgnored ==
    /\ \A n \in AllNotes \cup { 0, 35, 127 } : \A msg \in NoteMsgs(n) :
          ~Mapped(n) => process_midi_message(Garden, msg) = Garden
    /\ \A c \in { 0, 8, 11, 19, 99, 127 } : \A v \in { 0, 127 } :
          process_midi_message(Garden, Msg("control_change", c, v)) = Garden

\* C8 witness: a message has just been ignored while a voice loops, under a
\* mapping that names a sound the catalog does not have
C8_Witness ==
    /\ last = "ignored"
    /\ DOMAIN active_sounds # {}
    /\ \E n \in PadInputs.notes :
          n \in DOMAIN note_to_sound /\ note_to_sound[n] \notin CatalogKeys

\* the velocity of the note-on messages of the knob specification
TriggerVelocity == CHOOSE v \in KnobInputs.velocities : TRUE

\* C9 (as claimed): handling a master-volume message sets, for every looping
\* background voice, the gain to velocity gain x master volume x brightness
\* with the new master volume; value 127 gives master volume 1.0.
C9_MasterVolumeRecomputesGain ==
    \A v \in { 0, 127 } :
        LET g1 == process_midi_message(Garden, Msg("control_change", 10, v))
        IN  /\ v = 127 => g1.master_volume = KnobUnit
            /\ \A n \in BusyNotes(Garden) :
                  g1.sound_volume[get_sound_name_for_note(n)] =
                      (velocity_volume(TriggerVelocity) * g1.master_volume
                         * time_volume_modifier(g1)) \div KnobUnit

\* C10: a control-change message for a knob with value v sets that knob to
\* v/127, within [0, 1], and leaves the other knobs, the pad states and the
\* voice handles as they were.
C10_KnobFrame ==
    /\ \A c \in KnobControls : KnobValue(Garden, c) \in 0..KnobUnit
    /\ \A c \in KnobControls : \A v \in { 0, 1, 64, 127 } :
          LET g1 == process_midi_message(Garden, Msg("control_change", c, v))
          IN  /\ KnobValue(g1, c) * 127 = v * KnobUnit
              /\ \A d \in KnobControls \ {c} : KnobValue(g1, d) = KnobValue(Garden, d)
              /\ g1.pad_states = pad_states
              /\ g1.active_sounds = active_sounds

\* C10 witness: a knob message has just set the water knob to 1.0 while a
\* pad is ON and the temperature still has its initial value
C10_Witness ==
    /\ last = "knob"
    /\ water = KnobUnit
    /\ temperature = 635
    /\ \E n \in DOMAIN active_sounds : pad_states[n]

(***************************************************************************)
(* The gain of a voice that starts.                                        *)
(***************************************************************************)
\* a background pad that is OFF and for which turn_pad_on finds a channel
StartsLoop(g, note) ==
    /\ Mapped(note)
    /\ is_big_pad_note(note)
    /\ ~IsOn(g, note)
    /\ ~NoChannelFor(g, note)

\* C11: when a background pad turns ON, the gain given to its looping voice is
\* velocity gain x master volume x background mix x brightness(time of day),
\* for every velocity and every setting of the knobs.  The garden has no
\* background-mix knob, which leaves the factor 1.
C11_BackgroundOnGain ==
    \A note \in AllNotes, velocity \in { 1, 64, 127 } :
        StartsLoop(Garden, note) =>
            LET g == process_midi_message(Garden, Msg("note_on", note, velocity))
            IN  g.sound_volume[get_sound_name_for_note(note)]
                  = (velocity_volume(velocity) * master_volume * time_volume_modifier(Garden))
                        \div KnobUnit

\* C12: the velocity gain is a linear, non-decreasing map of 0..127 into
\* [0.1, 0.8] (127 and 1016 in units of 1/1270), with 0.1 at velocity 0 and 0.8
\* at velocity 127; a voice started by a note-on gets the gain of its velocity
\* times the master volume, one started by a note-off that of velocity 64.
C12_VelocityGainRange ==
    /\ velocity_volume(0) = 127
    /\ velocity_volume(127) = 1016
    /\ \A v \in 0..127 : velocity_volume(v) \in 127..1016
    /\ \A v \in 0..126 :
          /\ velocity_volume(v + 1) >= velocity_volume(v)
          /\ velocity_volume(v + 1) - velocity_volume(v)
                = velocity_volume(1) - velocity_volume(0)
    /\ \A note \in AllNotes :
          StartsLoop(Garden, note) =>
            /\ \A velocity \in { 1, 20, 127 } :
                  process_midi_message(Garden, Msg("note_on", note, velocity))
                      .sound_volume[get_sound_name_for_note(note)]
                    = velocity_volume(velocity) * master_volume
            /\ \A msg \in { Msg("note_off", note, 0), Msg("note_on", note, 0) } :
                  LET volume == process_midi_message(Garden, msg)
                                    .sound_volume[get_sound_name_for_note(note)]
                  IN  /\ volume = velocity_volume(64) * master_volume
                      /\ volume >= 127 * master_volume
                      /\ volume <= 1016 * master_volume

\* a note-off has just started the earth loop, at the gain of velocity 64
C12_Witness ==
    /\ last = "on"
    /\ 36 \in DOMAIN active_sounds
    /\ master_volume > 0
    /\ sound_volume[SoundName("earth", 0)] = 575 * master_volume
    /\ get_sound_name_for_note(36) = SoundName("earth", 0)

(***************************************************************************)
(* The router built from a mapping file.                                   *)
(***************************************************************************)
\* the constructor has returned a garden built from a file it could read
Loaded == main_pc \in { "ready", "run" } /\ mapping_file.found

\* entry p of the group is the i-th note_on entry of the group
OnIndex(group, p) == Cardinality({ q \in 1..p : group[q].midi_type = "note_on" })

\* the identifiers of the note_on entries of a group
OnNotes(group) ==
    { group[p].midi_note : p \in { q \in 1..Len(group) : group[q].midi_type = "note_on" } }

Registers == << "seed", "sprout", "bud", "flower" >>

\* C14: sixteen distinct note_on identifiers in numbers, recorded in any
\* order: the k-th smallest has tone k, and the tones 1-4, 5-8, 9-12, 13-16
\* are those of seed, sprout, bud, flower.
C14_MelodicSortedGroups ==
    ( Loaded /\ Cardinality(OnNotes(mapping_file.numbers)) = 16 ) =>
        \A n \in OnNotes(mapping_file.numbers) :
            LET k == Cardinality({ m \in OnNotes(mapping_file.numbers) : m <= n })
            IN  get_sound_name_for_note(n) = SoundName(Registers[((k - 1) \div 4) + 1], k)

\* a garden built from a file that records sixteen scattered number pads,
\* neither ascending nor descending: the smallest, 55, has seed_1, the fifth
\* smallest, 67, has sprout_5, and the largest, 100, has flower_16
C14_Witness ==
    /\ main_pc = "run"
    /\ mapping_file.numbers = Recorded([i \in 1..16 |-> 100 - 3 * ((5 * i) % 16)])
    /\ note_to_sound[55] = SoundName("seed", 1)
    /\ note_to_sound[67] = SoundName("sprout", 5)
    /\ note_to_sound[100] = SoundName("flower", 16)

\* C15: with the mapping file missing or malformed (unparseable, or with
\* entries that lack the expected fields), construction goes on with the
\* default table of 8 background and 16 melodic identifiers; it never fails.
C15_MissingOrMalformedFallsBack ==
    ( main_pc # "construct" /\ (~mapping_file.found \/ Raises(mapping_file)) ) =>
        /\ main_pc # "failed"
        /\ note_to_sound = _build_default_mapping

\* the control number the garden has built in for a knob role
RoleControl(custom_name) ==
    CASE custom_name = "master_volume" -> 10
      [] custom_name = "temperature" -> 16
      [] custom_name = "water" -> 17
      [] custom_name = "time_of_day" -> 18
      [] custom_name = "seasons" -> 7

\* C16: with a mapping file loaded, a control-change event that carries an
\* identifier the file records as a knob updates the knob value of the role
\* recorded for that identifier.
C16_KnobRolesFromFile ==
    ( main_pc = "run" /\ mapping_file.found ) =>
        \A p \in 1..Len(mapping_file.knobs) :
            LET knob == mapping_file.knobs[p]
                g    == process_midi_message(Garden,
                            Msg("control_change", knob.midi_control, 127))
            IN  KnobValue(g, RoleControl(knob.custom_name)) = 10 * 127

C18_StatusThreadReadOnly ==
    /\ [][status' # status =>
              UNCHANGED << pad_states, master_volume, temperature, water, time_of_day,
                           seasons >>]_vars
    /\ [](status.pc # "dead")

\* the event thread has inserted an entry while the status thread iterated
\* over pad_states; the iteration has raised, the thread sleeps until its next
\* pass and the garden runs
C18_Witness ==
    /\ last = "status_error"
    /\ status.pc = "sleep"
    /\ running
    /\ pad_states # << >>

\* C19: an entry of pad_states is reset to OFF (or removed) whenever the sound
\* is stopped, by a toggle to OFF or by the shutdown that fades and clears the
\* active voices: no background pad is ON without its voice being recorded.
C19_NoPadOnAfterSoundStopped ==
    /\ \A note \in AllNotes :
          ( Mapped(note) /\ IsOn(Garden, note) ) =>
              ~IsOn(process_midi_message(Garden, Msg("note_on", note, 127)), note)
    /\ \A note \in DOMAIN pad_states :
          ( is_big_pad_note(note) /\ pad_states[note] ) => note \in DOMAIN active_sounds

(***************************************************************************)
(* The frequency limits of the generators.                                 *)
(***************************************************************************)
\* C20: every frequency a generator uses to compute a sample, the first one
\* included, lies between 200 Hz and 4000 Hz.
C20_CarrierInRange ==
    \A frequency \in synth.used : frequency >= 200000 /\ frequency <= 4000000

(***************************************************************************)
(* The amplitude of the generated buffers.                                 *)
(***************************************************************************)
\* a sample of a buffer has just been stored
Stored == synth.generator \in BufferKinds /\ synth.i > 0

\* C21: every sample of every generated buffer has magnitude at most 1.0
\* before quantization, also when all partials and modulations peak together,
\* so that 32767 times the sample is a signed 16-bit number that the
\* conversion leaves as it is.
C21_SampleWithinUnit ==
    Stored =>
        /\ synth.sample >= 0 - 1000000
        /\ synth.sample <= 1000000
        /\ Scaled(synth.sample) \in (0 - 32768)..32767
        /\ synth.quantized = Scaled(synth.sample)

\* the loudest sample of the catalog, 0.704, has been stored: a thunder
\* strike with its eight partials at 1 and the envelope at 1
C21_Witness ==
    /\ Stored
    /\ synth.generator = "thunder"
    /\ synth.sample = 704000
    /\ synth.quantized = 23067

\* C22: the last sample of every generated buffer is silent: the fade-out
\* envelope that is applied to it is 0.
C22_FinalSampleSilent ==
    ( Stored /\ synth.i = synth.frames ) =>
        /\ synth.fade_out_env = 0
        /\ synth.sample = 0

(***************************************************************************)
(* The listener.                                                           *)
(***************************************************************************)
\* C23: when the listener is called for a pad turning ON or OFF, the pad
\* state and the handle map already hold their post-transition values, and
\* the state that results is the same whatever the listener does.
C23_ListenerAfterTransition ==
    \A n \in PadInputs.notes : \A msg \in NoteMsgs(n) :
        Outcome(Garden, msg) \in { "on", "off" } =>
            LET post == PadView(process_midi_message(Garden, msg), n)
            IN  /\ PadView(AtCallback(Garden, msg), n) = post
                /\ \A listener \in Listeners :
                      PadView(process_midi_message_listened(Garden, msg, listener), n) = post

(***************************************************************************)
(* The pad state and the handle map of a background pad.                   *)
(***************************************************************************)
\* C25: while the event thread handles one event at a time and the garden
\* has not been shut down, a background identifier is ON exactly when a
\* voice handle is recorded for it, also after an ON request that found no
\* free channel.
C25_BackgroundOnIffHandle ==
    \A n \in AllNotes :
        is_big_pad_note(n) => ( IsOn(Garden, n) <=> n \in DOMAIN active_sounds )

\* an ON request for a background pad has just found no free channel: the pad
\* is OFF and has no handle
C25_Witness ==
    /\ last = "dropped"
    /\ \E n \in AllNotes :
          /\ is_big_pad_note(n)
          /\ dropped[n] = 1
          /\ ~IsOn(Garden, n)
          /\ n \notin DOMAIN active_sounds

(***************************************************************************)
(* The order of knob events.                                               *)
(***************************************************************************)
\* the gain of the sound of note n after the two knob events, first then second
GainAfter(g, n, first, second) ==
    process_midi_message(process_midi_message(g, first), second)
        .sound_volume[get_sound_name_for_note(n)]

\* C28: the gain of an active background voice after a master-volume event
\* and a time-of-day event depends only on the two knob values, not on the
\* order in which the events arrive.
C28_KnobOrderIrrelevant ==
    \A n \in BusyNotes(Garden) :
        ( Mapped(n) /\ is_big_pad_note(n) ) =>
            \A m \in { 0, 64, 127 }, t \in { 0, 64, 127 } :
                GainAfter(Garden, n, Msg("control_change", 10, m), Msg("control_change", 18, t))
                  = GainAfter(Garden, n, Msg("control_change", 18, t), Msg("control_change", 10, m))

(***************************************************************************)
(* What a note event leaves alone.                                         *)
(***************************************************************************)
\* the channels of the voices that identifiers other than a own in g
OwnedByOthers(g, a) == { g.active_sounds[b] : b \in DOMAIN g.active_sounds \ { a } }

\* C29: a note event for identifier a leaves the pad state and the handle of
\* every other identifier and every knob value as they were, and issues no
\* stop or fade to a voice that another identifier owns.
C29_NoteEventFrame ==
    \A a \in AllNotes : \A msg \in NoteMsgs(a) :
        LET g1 == process_midi_message(Garden, msg)
        IN  /\ \A b \in (DOMAIN note_to_sound \cup AllNotes) \ { a } :
                  /\ IsOn(g1, b) = IsOn(Garden, b)
                  /\ b \in DOMAIN g1.active_sounds <=> b \in DOMAIN active_sounds
                  /\ b \in DOMAIN active_sounds => g1.active_sounds[b] = active_sounds[b]
            /\ \A control \in KnobControls : KnobValue(g1, control) = KnobValue(Garden, control)
            /\ \A k \in 1..Len(g1.commands) :
                  g1.commands[k].op \in { "stop", "fadeout" } =>
                      g1.commands[k].channel \notin OwnedByOthers(Garden, a)

\* a background pad has just been turned OFF, its voice faded and its handle
\* discarded, while another background pad is ON with a looping voice
C29_Witness ==
    /\ last = "off"
    /\ \E a, b \in AllNotes :
          /\ a # b
          /\ is_big_pad_note(a) /\ is_big_pad_note(b)
          /\ a \in DOMAIN pad_states /\ ~pad_states[a]
          /\ \E c \in Channels : channels[c] = "fade"
          /\ IsOn(Garden, b)
          /\ b \in DOMAIN active_sounds
          /\ channels[active_sounds[b]] = "loop"

(***************************************************************************)
(* The names the router produces.                                          *)
(***************************************************************************)
\* C30: every identifier the router maps, from the default table or from a
\* mapping file with any number of note_on entries, resolves to a key of the
\* sound catalog, and every melodic name has its '_off' key in the catalog.
C30_MappedNamesInCatalog ==
    \A n \in DOMAIN note_to_sound :
        /\ note_to_sound[n] \in CatalogKeys
        /\ note_to_sound[n] \notin BigPadNames => OffName(note_to_sound[n]) \in CatalogKeys

(***************************************************************************)
(* The end of the loops and of the garden.                                 *)
(***************************************************************************)
\* both loops have been left
LoopsExited == midi.pc = "exited" /\ status.pc = "exited"

\* C24: no loop blocks: once running is false, the loop of midi_monitor and
\* the loop of status_monitor begin no further pass and are both left in the
\* end, whether or not a message arrives and whether or not handling raises.
C24_LoopsExit ==
    /\ ~running ~> LoopsExited
    /\ [][~running => /\ (midi.pc = "test" => midi'.pc # "receive")
                      /\ (status.pc = "sleep" => status'.pc # "count")]_vars

\* the garden has been shut down with a device open, and both loops have
\* been left
C24_Witness ==
    /\ ~running
    /\ midi_input = "closed"
    /\ main_pc = "stopped"
    /\ LoopsExited

\* C26: however the shutdown and the event thread's handling of a note event
\* interleave, once the shutdown has completed no background voice loops on,
\* no handle is recorded and the MIDI port is closed.
C26_ShutdownLeavesNothing ==
    main_pc = "stopped" =>
        /\ active_sounds = << >>
        /\ \A c \in Channels : channels[c] # "loop"
        /\ midi_input # "open"

(***************************************************************************)
(* The dashboard's reset beside the event thread.                          *)
(***************************************************************************)
\* C27: however the dashboard's reset and the event thread's toggles of the
\* same background identifier interleave, no identifier is OFF while a
\* looping voice is recorded for it, and neither thread fails on the handle map.
C27_ResetKeepsPadAndHandle ==
    /\ \A n \in DOMAIN active_sounds :
          ( is_big_pad_note(n) /\ channels[active_sounds[n]] = "loop" ) => IsOn(Garden, n)
    /\ last # "reset_error"

====
